---- MODULE Spec2Model ----
(***************************************************************************)
(* dj-stripe custom model fields (djstripe/fields.py).                     *)
(*                                                                         *)
(* A field is declared once (its class, its column name and the keyword    *)
(* arguments of its constructor), then stripe_to_db is called on the       *)
(* mappings received from Stripe.  The model keeps the constructed field,  *)
(* the keyword arguments handed to the underlying Django column, the       *)
(* mapping the caller holds, and the outcome of the latest stripe_to_db    *)
(* call (value or exception, the keys it looked up, the post-processing    *)
(* it invoked).                                                            *)
(***************************************************************************)
EXTENDS Integers, Sequences, FiniteSets, TLC

VARIABLES cls, name, kwargs, field, data, calls, out

vars == <<cls, name, kwargs, field, data, calls, out>>

(***************************************************************************)
(* Bounds of the model.                                                    *)
(***************************************************************************)
\* stripe_to_db calls made on one received mapping
MaxCalls == 2

(***************************************************************************)
(* Python values.  A value is a tagged tuple, so that values of different  *)
(* Python types can be told apart.  A str is kept as the list of its       *)
(* "."-separated segments (what str.split(".") returns): "data.id" is      *)
(* <<"data", "id">> and the empty string is <<"">>.                        *)
(***************************************************************************)
PyNone == <<"none">>

PyBool(b) == <<"bool", b>>

PyInt(n) == <<"int", n>>

PyStr(segs) == <<"str", segs>>

PyDict(f) == <<"dict", f>>

\* decimal.Decimal with coefficient coef and exponent exp: coef * 10^exp
PyDecimal(coef, exp) == <<"decimal", coef, exp>>

\* datetime at secs seconds after the epoch
PyDatetime(secs) == <<"datetime", secs>>

\* Python truth value of v, as tested by `if v:` and `not v`
Truthy(v) ==
    CASE v[1] = "none" -> FALSE
      [] v[1] = "bool" -> v[2]
      [] v[1] = "int" -> v[2] /= 0
      [] v[1] = "str" -> v[2] /= <<"">>
      [] v[1] = "dict" -> DOMAIN v[2] /= {}
      [] OTHER -> TRUE

\* a + "." + name, for a str a and a dot-free name
DotJoin(a, nm) == PyStr(a[2] \o <<nm>>)

\* dict d without key k (what is left of d after d.pop(k))
Without(d, k) == [x \in DOMAIN d \ {k} |-> d[x]]

\* dict d after d.update(k)
Update(d, k) == [x \in DOMAIN d \cup DOMAIN k |-> IF x \in DOMAIN k THEN k[x] ELSE d[x]]

\* d.get(k, dflt); also the value of d.pop(k, dflt)
Get(d, k, dflt) == IF k \in DOMAIN d THEN d[k] ELSE dflt

EmptyDict == [x \in {} |-> PyNone]

(***************************************************************************)
(* Outcome of a call: the exception raised ("" when it returned), the      *)
(* value returned, the keys looked up in the mapping in order, the         *)
(* arguments handed to post-processing in order, and the outcome of the    *)
(* mixin's resolver when the call ran it.                                  *)
(***************************************************************************)
NotRun == <<"notrun">>

Outcome(e, v, lk) == [exc |-> e, val |-> v, lookups |-> lk, post |-> <<>>, base |-> NotRun]

NoCall == Outcome("nocall", PyNone, <<>>)

\* v[k]: KeyError on a mapping without k, TypeError on a value that is no mapping
Subscript(v, k) ==
    IF v[1] = "dict"
    THEN IF k \in DOMAIN v[2]
         THEN Outcome("", v[2][k], <<k>>)
         ELSE Outcome("KeyError", PyNone, <<k>>)
    ELSE Outcome("TypeError", PyNone, <<k>>)

\* djstripe.utils.dict_nested_accessor: d["a"]["b"]["c"] for the name "a.b.c"
RECURSIVE dict_nested_accessor(_, _)
dict_nested_accessor(d, nm) ==
    LET names == nm[2]
        first == Subscript(d, Head(names))
    IN  IF Len(names) > 1
        THEN IF first.exc /= ""
             THEN first
             ELSE LET rest == dict_nested_accessor(first.val, PyStr(Tail(names)))
                  IN  [rest EXCEPT !.lookups = first.lookups \o @]
        ELSE first

(***************************************************************************)
(* stripe_to_db.                                                           *)
(***************************************************************************)
\* Resolve with the two tests in the other order: nested_name before stripe_name
Resolve_nested_first(self, d) ==
    IF Truthy(self.nested_name)
    THEN dict_nested_accessor(d, DotJoin(self.nested_name, self.name))
    ELSE IF Truthy(self.stripe_name)
         THEN dict_nested_accessor(d, self.stripe_name)
         ELSE Subscript(d, self.name)

\* the lookup of StripeFieldMixin.stripe_to_db: the body of its try block
Resolve(self, d) ==
    IF Truthy(self.stripe_name)
    THEN dict_nested_accessor(d, self.stripe_name)
    ELSE IF Truthy(self.nested_name)
         THEN dict_nested_accessor(d, DotJoin(self.nested_name, self.name))
         ELSE Subscript(d, self.name)

\* ExceptKeyError without the test of stripe_required: every KeyError becomes None
ExceptKeyError_swallow(self, r) ==
    IF r.exc = "KeyError"
    THEN [r EXCEPT !.exc = "", !.val = PyNone]
    ELSE r

\* `except KeyError`: re-raised by a required field, None for an optional one;
\* any other exception is not caught
ExceptKeyError(self, r) ==
    IF r.exc = "KeyError"
    THEN IF Truthy(self.stripe_required)
         THEN r
         ELSE [r EXCEPT !.exc = "", !.val = PyNone]
    ELSE r

\* StripeFieldMixin.stripe_to_db; a deprecated field falls off the end: None
StripeFieldMixin_stripe_to_db(self, d) ==
    LET r == IF ~Truthy(self.deprecated)
             THEN ExceptKeyError(self, Resolve(self, d))
             ELSE Outcome("", PyNone, <<>>)
    IN  [r EXCEPT !.base = <<"ran", r.exc, r.val>>]

\* the call r continued by a post-processing of arg that ended as p
Post(r, arg, p) == [r EXCEPT !.exc = p.exc, !.val = p.val, !.post = @ \o <<arg>>]

\* decimal.Decimal("100")
Hundred == 100

\* TrueDivHundred as an integer division: val // 100
TrueDivHundred_floor(val) ==
    IF val[1] = "int"
    THEN Outcome("", PyDecimal(val[2] \div Hundred, 0), <<>>)
    ELSE Outcome("TypeError", PyNone, <<>>)

\* val / decimal.Decimal("100"): exact for an int (bool is an int), TypeError
\* for a value Decimal does not divide
TrueDivHundred(val) ==
    LET n == IF val[1] = "int" THEN val[2] ELSE IF val[2] THEN 1 ELSE 0
    IN  IF val[1] \in {"int", "bool"}
        THEN IF n % Hundred = 0
             THEN Outcome("", PyDecimal(n \div Hundred, 0), <<>>)
             ELSE IF n % 10 = 0
                  THEN Outcome("", PyDecimal(n \div 10, -1), <<>>)
                  ELSE Outcome("", PyDecimal(n, -2), <<>>)
        ELSE Outcome("TypeError", PyNone, <<>>)

\* StripeCurrencyField.stripe_to_db
StripeCurrencyField_stripe_to_db(self, d) ==
    LET val == StripeFieldMixin_stripe_to_db(self, d)
    IN  IF val.exc /= ""
        THEN val
        ELSE IF val.val /= PyNone
             THEN Post(val, val.val, TrueDivHundred(val.val))
             ELSE val

\* djstripe.utils.convert_tstamp: seconds since the epoch to a datetime;
\* a value that is no number is rejected
convert_tstamp(response) ==
    IF response[1] = "int"
    THEN Outcome("", PyDatetime(response[2]), <<>>)
    ELSE Outcome("TypeError", PyNone, <<>>)

\* StripeDateTimeField.stripe_to_db
StripeDateTimeField_stripe_to_db(self, d) ==
    IF ~Truthy(self.deprecated)
    THEN LET val == StripeFieldMixin_stripe_to_db(self, d)
         IN  IF val.exc /= ""
             THEN val
             ELSE Post(val, val.val, convert_tstamp(val.val))
    ELSE Outcome("", PyNone, <<>>)

\* StripeJSONField.stripe_to_db without its override: the mixin's resolver always
StripeJSONField_stripe_to_db_inherited(self, d) == StripeFieldMixin_stripe_to_db(self, d)

\* StripeJSONField.stripe_to_db
StripeJSONField_stripe_to_db(self, d) ==
    IF Truthy(self.stripe_name)
    THEN StripeFieldMixin_stripe_to_db(self, d)
    ELSE Outcome("", d, <<>>)

\* self.stripe_to_db(data), by the class of self
stripe_to_db(self, d) ==
    CASE self.cls = "StripeCurrencyField" -> StripeCurrencyField_stripe_to_db(self, d)
      [] self.cls = "StripeDateTimeField" -> StripeDateTimeField_stripe_to_db(self, d)
      [] self.cls = "StripeJSONField" -> StripeJSONField_stripe_to_db(self, d)
      [] OTHER -> StripeFieldMixin_stripe_to_db(self, d)

(***************************************************************************)
(* Construction.                                                           *)
(***************************************************************************)
\* the field of class c named nm before its constructor ran; a constructor
\* that raises leaves its exception in exc
NewField(c, nm) ==
    [exc |-> "", cls |-> c, name |-> nm,
     stripe_name |-> PyNone, nested_name |-> PyNone,
     stripe_required |-> PyBool(TRUE), deprecated |-> PyBool(FALSE),
     column |-> EmptyDict]

Undeclared == [NewField("", "") EXCEPT !.exc = "undeclared"]

\* StripeFieldMixin.__init__ with kwargs.setdefault in place of the assignments:
\* a null or default the caller gave is kept
StripeFieldMixin_init_setdefault(self, kw) ==
    LET sn == Get(kw, "stripe_name", self.stripe_name)
        nn == Get(kw, "nested_name", self.nested_name)
        rq == Get(kw, "stripe_required", self.stripe_required)
        dp == Get(kw, "deprecated", self.deprecated)
        k0 == Without(Without(Without(Without(kw, "stripe_name"), "nested_name"),
                              "stripe_required"), "deprecated")
        k1 == IF ~Truthy(rq) THEN Update([null |-> PyBool(TRUE)], k0) ELSE k0
        k2 == IF Truthy(dp)
              THEN Update([null |-> PyBool(TRUE), default |-> PyNone], k1)
              ELSE k1
    IN  [self EXCEPT !.stripe_name = sn, !.nested_name = nn,
                     !.stripe_required = rq, !.deprecated = dp, !.column = k2]

\* StripeFieldMixin.__init__: pops its four options (the class attributes are
\* the defaults), forces null and default, and hands the rest to the column
StripeFieldMixin_init(self, kw) ==
    LET sn == Get(kw, "stripe_name", self.stripe_name)
        nn == Get(kw, "nested_name", self.nested_name)
        rq == Get(kw, "stripe_required", self.stripe_required)
        dp == Get(kw, "deprecated", self.deprecated)
        k0 == Without(Without(Without(Without(kw, "stripe_name"), "nested_name"),
                              "stripe_required"), "deprecated")
        k1 == IF ~Truthy(rq) THEN Update(k0, [null |-> PyBool(TRUE)]) ELSE k0
        k2 == IF Truthy(dp)
              THEN Update(k1, [null |-> PyBool(TRUE), default |-> PyNone])
              ELSE k1
    IN  [self EXCEPT !.stripe_name = sn, !.nested_name = nn,
                     !.stripe_required = rq, !.deprecated = dp, !.column = k2]

\* StripeCurrencyField.__init__
StripeCurrencyField_init(self, kw) ==
    LET defaults == [decimal_places |-> PyInt(2), max_digits |-> PyInt(7)]
    IN  StripeFieldMixin_init(self, Update(defaults, kw))

\* StripeBooleanField.__init__ without its check
StripeBooleanField_init_unchecked(self, kw) == StripeFieldMixin_init(self, kw)

\* StripeBooleanField.__init__
StripeBooleanField_init(self, kw) ==
    IF Truthy(Get(kw, "deprecated", PyBool(FALSE)))
    THEN [self EXCEPT !.exc = "ImproperlyConfigured"]
    ELSE StripeFieldMixin_init(self, kw)

\* StripeIdField.__init__ with the defaults laid over the mixin's result:
\* null = False last
StripeIdField_init_defaults_last(self, kw) ==
    LET defaults == [max_length |-> PyInt(50), blank |-> PyBool(FALSE),
                     null |-> PyBool(FALSE)]
        made == StripeFieldMixin_init(self, kw)
    IN  [made EXCEPT !.column = Update(@, defaults)]

\* StripeIdField.__init__
StripeIdField_init(self, kw) ==
    LET defaults == [max_length |-> PyInt(50), blank |-> PyBool(FALSE),
                     null |-> PyBool(FALSE)]
    IN  StripeFieldMixin_init(self, Update(defaults, kw))

\* c(**kw), by the class c
New(c, nm, kw) ==
    CASE c = "StripeCurrencyField" -> StripeCurrencyField_init(NewField(c, nm), kw)
      [] c = "StripeBooleanField" -> StripeBooleanField_init(NewField(c, nm), kw)
      [] c = "StripeIdField" -> StripeIdField_init(NewField(c, nm), kw)
      [] OTHER -> StripeFieldMixin_init(NewField(c, nm), kw)

(***************************************************************************)
(* Inputs.                                                                 *)
(***************************************************************************)
Classes ==
    {"StripeCurrencyField", "StripeBooleanField", "StripeNullBooleanField",
     "StripeCharField", "StripeIdField", "StripeTextField", "StripeDateTimeField",
     "StripeIntegerField", "StripePositiveIntegerField", "StripeJSONField"}

\* column names
Names == {"id", "amount"}

Absent == <<"absent">>

\* the keyword arguments a declaration may give; Absent: not given
StripeNames == {Absent, PyStr(<<"">>), PyStr(<<"amount">>), PyStr(<<"data", "id">>),
                PyStr(<<"data", "object", "amount">>)}

NestedNames == {Absent, PyStr(<<"">>), PyStr(<<"data">>), PyStr(<<"data", "object">>)}

Flags == {Absent, PyBool(TRUE), PyBool(FALSE)}

Defaults == {Absent, PyInt(0)}

Given(r) == [k \in {x \in DOMAIN r : r[x] /= Absent} |-> r[k]]

KwargsSet ==
    {Given([stripe_name |-> sn, nested_name |-> nn, stripe_required |-> rq,
            deprecated |-> dp, null |-> nl, default |-> df]) :
        sn \in StripeNames, nn \in NestedNames, rq \in Flags, dp \in Flags,
        nl \in Flags, df \in Defaults}

\* the mappings received from Stripe
DataSet ==
    {PyDict(EmptyDict),
     PyDict([id |-> PyStr(<<"abc">>), amount |-> PyInt(1050)]),
     PyDict([id |-> PyNone, amount |-> PyInt(0),
             data |-> PyDict([id |-> PyStr(<<"in">>), amount |-> PyInt(-250)])]),
     PyDict([amount |-> PyInt(5),
             data |-> PyDict([object |-> PyDict([id |-> PyStr(<<"deep">>),
                                                 amount |-> PyInt(1230)])])]),
     PyDict([id |-> PyStr(<<"top">>), data |-> PyStr(<<"abc">>)]),
     PyDict([id |-> PyInt(7), amount |-> PyStr(<<"10", "50">>),
             data |-> PyDict([amount |-> PyBool(TRUE), object |-> PyDict(EmptyDict)])])}

(***************************************************************************)
(* The state machine.                                                      *)
(***************************************************************************)
Init ==
    /\ cls \in Classes
    /\ name \in Names
    /\ kwargs \in KwargsSet
    /\ field = Undeclared
    /\ data = PyNone
    /\ calls = 0
    /\ out = NoCall

\* the declaration is evaluated: cls(**kwargs)
Construct ==
    /\ field.exc = "undeclared"
    /\ field' = New(cls, name, kwargs)
    /\ UNCHANGED <<cls, name, kwargs, data, calls, out>>

\* the caller receives a mapping from Stripe
Receive ==
    /\ field.exc = ""
    /\ \E d \in DataSet : data' = d
    /\ calls' = 0
    /\ out' = NoCall
    /\ UNCHANGED <<cls, name, kwargs, field>>

\* StripeToDb reading the key with data.pop(name): the key leaves the mapping
StripeToDb_pop ==
    /\ field.exc = ""
    /\ data /= PyNone
    /\ calls < MaxCalls
    /\ out' = stripe_to_db(field, data)
    /\ calls' = calls + 1
    /\ data' = PyDict(Without(data[2], field.name))
    /\ UNCHANGED <<cls, name, kwargs, field>>

\* the caller calls field.stripe_to_db(data)
StripeToDb ==
    /\ field.exc = ""
    /\ data /= PyNone
    /\ calls < MaxCalls
    /\ out' = stripe_to_db(field, data)
    /\ calls' = calls + 1
    /\ UNCHANGED <<cls, name, kwargs, field, data>>

Next == Construct \/ Receive \/ StripeToDb

Spec == Init /\ [][Next]_vars

(***************************************************************************)
(* What the properties speak of.                                           *)
(***************************************************************************)
\* a stripe_to_db call has been made on the mapping held
Called == calls > 0

\* the field is constructed and not deprecated
Live == field.exc = "" /\ ~Truthy(field.deprecated)

Required == Truthy(field.stripe_required)

\* the path of the key a field is to read: stripe_name when set (not empty),
\* else nested_name "." name when nested_name is set, else name
TargetPath(f) ==
    IF Truthy(f.stripe_name)
    THEN f.stripe_name[2]
    ELSE IF Truthy(f.nested_name) THEN f.nested_name[2] \o <<f.name>> ELSE <<f.name>>

\* what lies at path in v: <<"found", value>>, <<"missing">> when a mapping on
\* the way lacks the next key, <<"nomapping">> when the way leads into a value
\* that is no mapping
RECURSIVE At(_, _)
At(v, path) ==
    IF path = <<>>
    THEN <<"found", v>>
    ELSE IF v[1] /= "dict"
         THEN <<"nomapping">>
         ELSE IF Head(path) \notin DOMAIN v[2]
              THEN <<"missing">>
              ELSE At(v[2][Head(path)], Tail(path))

Target == At(data, TargetPath(field))

\* every field but a JSON field without stripe_name, which reads no key
UsesResolver == ~(cls = "StripeJSONField" /\ ~Truthy(field.stripe_name))

Has(col, k, v) == k \in DOMAIN col /\ col[k] = v

Pow10(k) == CASE k = 0 -> 1 [] k = 1 -> 10 [] k = 2 -> 100

(***************************************************************************)
(* Properties.                                                             *)
(***************************************************************************)
\* C1: a deprecated field of any class yields None from stripe_to_db, whatever
\* the mapping holds, and looks up no key of the mapping.
C1_DeprecatedYieldsNone ==
    (Called /\ Truthy(field.deprecated)) =>
        (out.exc = "" /\ out.val = PyNone /\ out.lookups = <<>>)

\* C2, as claimed: a required field of any class that is not deprecated raises
\* the KeyError to its caller when the mapping lacks the key at the target path.
C2_RequiredMissingRaises ==
    (Called /\ Live /\ Required /\ Target = <<"missing">>) =>
        (out.exc = "KeyError" /\ out.val = PyNone)

\* C2, amended: a required field that is not deprecated, other than a JSON field
\* without stripe_name, raises the KeyError to its caller and returns no value
\* when the mapping lacks the key at the target path.
C2_RequiredMissingRaisesWhenResolved ==
    (Called /\ Live /\ Required /\ UsesResolver /\ Target = <<"missing">>) =>
        (out.exc = "KeyError" /\ out.val = PyNone)

\* C2 witness: a required field was called on a mapping that lacks an inner
\* segment of its dotted path, and the call raised.
C2_Witness ==
    /\ Called /\ Live /\ Required /\ UsesResolver
    /\ Target = <<"missing">>
    /\ Len(TargetPath(field)) > 1
    /\ out.exc = "KeyError"

\* C3: an optional field that is not deprecated yields None and raises nothing
\* when the mapping lacks the key at the target path, and the post-processing
\* of Currency and DateTime is never handed None.  (JSON fields without
\* stripe_name, which read no key, are left aside.)
C3_OptionalMissingYieldsNone ==
    (Called /\ Live /\ ~Required /\ UsesResolver /\ Target = <<"missing">>) =>
        /\ out.exc = ""
        /\ out.val = PyNone
        /\ \A i \in DOMAIN out.post : out.post[i] /= PyNone

C5_CurrencyExact ==
    (Called /\ Live /\ cls = "StripeCurrencyField") =>
        /\ (Target[1] = "found" /\ Target[2][1] = "int") =>
               /\ out.exc = ""
               /\ out.val[1] = "decimal"
               /\ out.val[3] \in {-2, -1, 0}
               /\ out.val[2] * Pow10(out.val[3] + 2) = Target[2][2]
        /\ out.base = <<"ran", "", PyNone>> => (out.exc = "" /\ out.val = PyNone)

\* C5 witness: 1050 cents were found and 10.5 was returned.
C5_Witness ==
    /\ Called /\ Live /\ cls = "StripeCurrencyField"
    /\ Target = <<"found", PyInt(1050)>>
    /\ out.val = PyDecimal(105, -1)

\* C6: StripeBooleanField(deprecated=True) raises ImproperlyConfigured and the
\* field is never used; with deprecated false or not given the construction
\* succeeds, and StripeNullBooleanField accepts deprecated=True.
C6_BooleanNotDeprecated ==
    field.exc /= "undeclared" =>
        LET dep == Truthy(Get(kwargs, "deprecated", PyBool(FALSE)))
        IN  /\ (cls = "StripeBooleanField" /\ dep) =>
                   (field.exc = "ImproperlyConfigured" /\ data = PyNone /\ ~Called)
            /\ (cls = "StripeBooleanField" /\ ~dep) => field.exc = ""
            /\ cls = "StripeNullBooleanField" =>
                   (field.exc = "" /\ field.deprecated = PyBool(dep))

\* C6 witness: a StripeBooleanField declared deprecated failed to construct.
C6_Witness ==
    /\ cls = "StripeBooleanField"
    /\ Has(kwargs, "deprecated", PyBool(TRUE))
    /\ field.exc = "ImproperlyConfigured"

C8_IdNeverNull ==
    (cls = "StripeIdField" /\ field.exc = "" /\ "null" \notin DOMAIN kwargs) =>
        /\ Has(field.column, "max_length", PyInt(50))
        /\ Has(field.column, "blank", PyBool(FALSE))
        /\ Has(field.column, "null", PyBool(FALSE))

\* C8, amended: an Id field declared without null has max_length 50 and blank
\* False; its null is False when it is required and not deprecated, and True
\* when it is optional or deprecated.
C8_IdColumn ==
    (cls = "StripeIdField" /\ field.exc = "" /\ "null" \notin DOMAIN kwargs) =>
        /\ Has(field.column, "max_length", PyInt(50))
        /\ Has(field.column, "blank", PyBool(FALSE))
        /\ Has(field.column, "null",
               PyBool(~Truthy(Get(kwargs, "stripe_required", PyBool(TRUE)))
                      \/ Truthy(Get(kwargs, "deprecated", PyBool(FALSE)))))

\* C8 witness: an optional Id field declared without null has a nullable column.
C8_Witness ==
    /\ cls = "StripeIdField" /\ field.exc = "" /\ "null" \notin DOMAIN kwargs
    /\ Has(kwargs, "stripe_required", PyBool(FALSE))
    /\ Has(field.column, "null", PyBool(TRUE))
    /\ Has(field.column, "max_length", PyInt(50))

\* C9: a stripe_to_db call leaves the mapping and the field as they were, also
\* when it raises, and a later call on the same mapping ends as the earlier did.
C9_Pure ==
    [][calls' > calls =>
           /\ data' = data
           /\ field' = field
           /\ Called => out' = out]_vars

\* C9 witness: a second call on the same mapping raised.
C9_Witness == calls = 2 /\ out.exc = "KeyError"

\* C10: the mixin's constructor forces null = True on an optional field and
\* null = True, default = None on a deprecated one, over what the caller gave;
\* a required field that is not deprecated gets the caller's null and default
\* and no other; the four options never reach the column and default to None,
\* None, True, False.
C10_ColumnKwargs ==
    field.exc = "" =>
        LET rq == Get(kwargs, "stripe_required", PyBool(TRUE))
            dp == Get(kwargs, "deprecated", PyBool(FALSE))
            col == field.column
        IN  /\ ~Truthy(rq) => Has(col, "null", PyBool(TRUE))
            /\ Truthy(dp) => (Has(col, "null", PyBool(TRUE)) /\ Has(col, "default", PyNone))
            /\ (Truthy(rq) /\ ~Truthy(dp)) =>
                   \A k \in {"null", "default"} :
                       IF k \in DOMAIN kwargs
                       THEN Has(col, k, kwargs[k])
                       ELSE k \in DOMAIN col =>
                                (cls = "StripeIdField" /\ k = "null" /\ col[k] = PyBool(FALSE))
            /\ DOMAIN col \cap {"stripe_name", "nested_name", "stripe_required",
                                "deprecated"} = {}
            /\ field.stripe_name = Get(kwargs, "stripe_name", PyNone)
            /\ field.nested_name = Get(kwargs, "nested_name", PyNone)
            /\ field.stripe_required = rq
            /\ field.deprecated = dp

\* C10 witness: the caller gave null = False and a default to an optional,
\* deprecated field, and the column got null = True and default = None.
C10_Witness ==
    /\ field.exc = ""
    /\ Has(kwargs, "null", PyBool(FALSE)) /\ Has(kwargs, "default", PyInt(0))
    /\ Has(kwargs, "stripe_required", PyBool(FALSE))
    /\ Has(kwargs, "deprecated", PyBool(TRUE))
    /\ Has(field.column, "null", PyBool(TRUE))
    /\ Has(field.column, "default", PyNone)

====
